---- MODULE Spec2Model ----
(***************************************************************************)
(* Model of listings/views.py: the booking, review and payment endpoints.  *)
(* Spec       : booking requests, and payment requests in flight: a        *)
(*              payment handler is split where it waits for the gateway    *)
(*              and between the statements of get_or_create, and every     *)
(*              other request may run in between                           *)
(* SpecReview : review requests in flight, split between validation or     *)
(*              duplicate check and the write                              *)
(***************************************************************************)
EXTENDS Integers, FiniteSets, Sequences, TLC

\* ---- bounds of the model ------------------------------------------------
NumUsers == 2
MaxBookings == 1
NumListings == 1
MaxReviews == 3

Users == 1..NumUsers
BookingIds == 1..MaxBookings
Listings == 1..NumListings
ReviewIds == 1..MaxReviews
\* the requests that can be in flight at the same time
Procs == {"w1", "w2"}
\* values of Booking.total_price that requests may carry
Prices == {100, 250}
\* values of data.tx_ref in the gateway's answer to initialize
TxRefs == {"T1", "T2"}
\* HTTP status codes of the gateway's answers
GatewayCodes == {200, 201, 503}
\* values of data.status in the gateway's answer to verify
GatewayStatuses == {"success", "failed", "pending"}
\* values of os.environ.get('CHAPA_SECRET_KEY'): None, the empty string, a key
KeyValues == {"None", "", "CHASECK"}

VARIABLES
    bookings,       \* rows of Booking: [id, user, total_price]
    nextBookingId,  \* the primary key the next Booking gets
    payments,       \* rows of Payment: [booking, amount, transaction_id, status]
    reviews,        \* rows of Review: [id, listing, reviewer]
    nextReviewId,   \* the primary key the next Review gets
    chapa_key,      \* value of CHAPA_SECRET_KEY in the environment
    resp,           \* the response the last step sent, NoResp if it sent none
    pc,             \* position of each request in flight in its handler
    local           \* the locals of each request in flight

vars == <<bookings, nextBookingId, payments, reviews, nextReviewId, chapa_key, resp, pc, local>>

NoResp == [op |-> "none", user |-> 0, id |-> 0, code |-> 0, error |-> "none",
           status |-> "none", transaction_id |-> "none", result |-> {},
           http |-> 0, data |-> "none"]

\* Response(...) of a booking or review handler
Response(op, u, id, code, error, result) ==
    [NoResp EXCEPT !.op = op, !.user = u, !.id = id, !.code = code, !.error = error,
                   !.result = result]

\* Response(...) of a payment handler; http and data are the gateway's answer
PaymentResponse(op, u, id, code, error, st, tx, http, data) ==
    [NoResp EXCEPT !.op = op, !.user = u, !.id = id, !.code = code, !.error = error,
                   !.status = st, !.transaction_id = tx, !.http = http, !.data = data]

NoLocal == [op |-> "none", user |-> 0, id |-> 0, loaded |-> {}, tx_ref |-> <<>>,
            transaction_id |-> "none", checkout_url |-> FALSE, listing |-> 0]

\* ---- BookingViewSet -----------------------------------------------------
\* faulty variant of get_queryset: Booking.objects.all()
get_queryset_all(bs, u) == bs

\* Booking.objects.filter(user=self.request.user)
get_queryset(bs, u) == {b \in bs : b.user = u}

\* get_object() of the viewset: the row of the queryset with that pk
get_object(bs, u, id) == {b \in get_queryset(bs, u) : b.id = id}

\* serializer.save(user=self.request.user)
perform_create(id, u, price) == [id |-> id, user |-> u, total_price |-> price]

\* serializer.save() of an update: Model.save() of the loaded instance updates
\* the row with its pk, and inserts it when no row has that pk
save_booking(bs, row) == {b \in bs : b.id # row.id} \cup {row}

\* Payment is one-to-one with Booking: deleting the booking deletes its payment
CascadeDelete(pays, id) == {p \in pays : p.booking # id}

\* ---- Payment store ------------------------------------------------------
PaymentsOf(pays, id) == {p \in pays : p.booking = id}

\* defaults of get_or_create in PaymentInitiateView.post
PaymentDefaults(b, tx_id) ==
    [booking |-> b.id, amount |-> b.total_price, transaction_id |-> tx_id,
     status |-> "pending"]

\* faulty variant of get_existing: update_or_create, the defaults overwrite the row
update_existing(pays, row) == (pays \ PaymentsOf(pays, row.booking)) \cup {row}

\* get_or_create when self.get() finds the row: the defaults are not applied
get_existing(pays, row) == pays

\* tx_ref of the request: f"booking_{booking.id}_{request.user.id}"
TxRefOf(b, u) == <<"booking", b.id, u>>

\* faulty variant of KeyMissing: chapa_key is None
KeyIsNone(key) == key = "None"

\* if not chapa_key: None and the empty string are both false
KeyMissing(key) == key = "None" \/ key = ""

\* faulty variant of GatewayOk: any 2xx answer counts as success
GatewayOk2xx(http) == http >= 200 /\ http < 300

\* if response.status_code == 200
GatewayOk(http) == http = 200

\* the status branch of PaymentVerifyView.get: the status of the payment object
VerifiedStatus(status_val, cur) ==
    IF status_val = "success" THEN "completed"
    ELSE IF status_val = "failed" THEN "failed"
    ELSE cur

\* the branches of PaymentVerifyView.get that call payment.save()
Saves(status_val) == status_val = "success" \/ status_val = "failed"

\* get_object_or_404(Booking, id=booking_id, user=request.user)
InitiateBooking(bs, u, id) == {b \in bs : b.id = id /\ b.user = u}

\* get_object_or_404(Payment, booking_id=booking_id)
VerifyPayment(pays, u, id) == {p \in pays : p.booking = id}

\* Payment.booking is the unique key of Payment: an insert of a second row for
\* the booking is refused with IntegrityError
UniqueBooking(pays, row) == \A p \in pays : p.booking # row.booking

\* Payment.booking references a Booking: an insert for a booking that is gone
\* is refused with IntegrityError
ForeignKeyOk(bs, row) == \E b \in bs : b.id = row.booking

\* faulty variant of create_or_get: a bare create(), no IntegrityError is caught
create_only(pays, bs, row) ==
    IF UniqueBooking(pays, row) /\ ForeignKeyOk(bs, row)
    THEN [payments |-> pays \cup {row}, error |-> "created"]
    ELSE [payments |-> pays, error |-> "IntegrityError"]

\* the insert of get_or_create: on IntegrityError the row is fetched again, and
\* the error is raised again when there is no row to fetch
create_or_get(pays, bs, row) ==
    IF ~UniqueBooking(pays, row)
    THEN [payments |-> pays, error |-> "refetched"]
    ELSE IF ~ForeignKeyOk(bs, row)
    THEN [payments |-> pays, error |-> "IntegrityError"]
    ELSE [payments |-> pays \cup {row}, error |-> "created"]

\* payment.save() of an object loaded earlier: the row is updated, or inserted
\* again when it is gone
save_payment(pays, bs, obj) ==
    IF PaymentsOf(pays, obj.booking) # {}
    THEN [payments |-> (pays \ PaymentsOf(pays, obj.booking)) \cup {obj}, error |-> "none"]
    ELSE IF ForeignKeyOk(bs, obj)
    THEN [payments |-> pays \cup {obj}, error |-> "none"]
    ELSE [payments |-> pays, error |-> "IntegrityError"]

\* ---- Review store -------------------------------------------------------
\* Review.objects.filter(listing=listing, reviewer=request.user).exists()
ReviewExists(rs, l, u) == \E r \in rs : r.listing = l /\ r.reviewer = u

ReviewsOf(rs, l, u) == {r \in rs : r.listing = l /\ r.reviewer = u}

\* ReviewViewSet.get_queryset for update, partial_update and destroy
review_queryset(rs, u) == {r \in rs : r.reviewer = u}

\* (listing, reviewer) is unique in Review: a write that gives a second row the
\* pair is refused with IntegrityError
UniqueReview(rs, row) ==
    \A r \in rs : (r.listing = row.listing /\ r.reviewer = row.reviewer) => r.id = row.id

\* serializer.save(...): the row is inserted, or updated when it has its id
save_review(rs, row) ==
    IF UniqueReview(rs, row)
    THEN [reviews |-> {r \in rs : r.id # row.id} \cup {row}, error |-> "none"]
    ELSE [reviews |-> rs, error |-> "IntegrityError"]

Init ==
    /\ bookings = {}
    /\ nextBookingId = 1
    /\ payments = {}
    /\ reviews = {}
    /\ nextReviewId = 1
    /\ chapa_key = "CHASECK"
    /\ resp = NoResp
    /\ pc = [w \in Procs |-> "idle"]
    /\ local = [w \in Procs |-> NoLocal]

\* the handler returns: the response is sent and the request is over
Respond(w, r) ==
    /\ resp' = r
    /\ pc' = [pc EXCEPT ![w] = "idle"]
    /\ local' = [local EXCEPT ![w] = NoLocal]

\* the handler goes on to its next statement, with these locals
Goto(w, label, l) ==
    /\ resp' = NoResp
    /\ pc' = [pc EXCEPT ![w] = label]
    /\ local' = [local EXCEPT ![w] = l]

\* the environment of the process: CHAPA_SECRET_KEY is set, emptied or unset
SetEnv(key) ==
    /\ key # chapa_key
    /\ chapa_key' = key
    /\ resp' = NoResp
    /\ UNCHANGED <<bookings, nextBookingId, payments, reviews, nextReviewId, pc, local>>

\* POST /bookings/ : serializer.is_valid(), perform_create
BookingCreate(u, price, valid) ==
    /\ IF ~valid
       THEN /\ resp' = Response("booking_create", u, 0, 400, "invalid", {})
            /\ UNCHANGED <<bookings, nextBookingId>>
       ELSE /\ nextBookingId <= MaxBookings
            /\ LET b == perform_create(nextBookingId, u, price) IN
                /\ bookings' = bookings \cup {b}
                /\ resp' = Response("booking_create", u, b.id, 201, "none", {b})
            /\ nextBookingId' = nextBookingId + 1
    /\ UNCHANGED <<payments, reviews, nextReviewId, chapa_key, pc, local>>

\* GET /bookings/
BookingList(u) ==
    /\ resp' = Response("booking_list", u, 0, 200, "none", get_queryset(bookings, u))
    /\ UNCHANGED <<bookings, nextBookingId, payments, reviews, nextReviewId, chapa_key,
                   pc, local>>

\* GET /bookings/{id}/
BookingRetrieve(u, id) ==
    /\ LET found == get_object(bookings, u, id) IN
        resp' = IF found = {}
                THEN Response("booking_retrieve", u, id, 404, "NotFound", {})
                ELSE Response("booking_retrieve", u, id, 200, "none", found)
    /\ UNCHANGED <<bookings, nextBookingId, payments, reviews, nextReviewId, chapa_key,
                   pc, local>>

\* PUT /bookings/{id}/ with a new total_price: get_object() on the caller's
\* bookings and serializer.is_valid()
BookingUpdate(w, u, id, price, valid) ==
    /\ pc[w] = "idle"
    /\ LET found == get_object(bookings, u, id) IN
       IF found = {}
       THEN Respond(w, Response("booking_update", u, id, 404, "NotFound", {}))
       ELSE IF ~valid
       THEN Respond(w, Response("booking_update", u, id, 400, "invalid", {}))
       ELSE Goto(w, "booking_perform_update",
                 [NoLocal EXCEPT !.op = "booking_update", !.user = u, !.id = id,
                                 !.loaded = {[b EXCEPT !.total_price = price] : b \in found}])
    /\ UNCHANGED <<bookings, nextBookingId, payments, reviews, nextReviewId, chapa_key>>

\* PUT /bookings/{id}/ : perform_update, serializer.save() of the loaded booking
BookingPerformUpdate(w) ==
    /\ pc[w] = "booking_perform_update"
    /\ \E b \in local[w].loaded :
          /\ bookings' = save_booking(bookings, b)
          /\ Respond(w, Response("booking_update", local[w].user, b.id, 200, "none", {b}))
    /\ UNCHANGED <<nextBookingId, payments, reviews, nextReviewId, chapa_key>>

\* DELETE /bookings/{id}/ : get_object() on the caller's bookings
BookingDestroy(w, u, id) ==
    /\ pc[w] = "idle"
    /\ LET found == get_object(bookings, u, id) IN
       IF found = {}
       THEN Respond(w, Response("booking_destroy", u, id, 404, "NotFound", {}))
       ELSE Goto(w, "booking_perform_destroy",
                 [NoLocal EXCEPT !.op = "booking_destroy", !.user = u, !.id = id,
                                 !.loaded = found])
    /\ UNCHANGED <<bookings, nextBookingId, payments, reviews, nextReviewId, chapa_key>>

\* DELETE /bookings/{id}/ : perform_destroy, instance.delete() removes the row
\* with the pk of the loaded booking, and its payment, in one transaction
BookingPerformDestroy(w) ==
    /\ pc[w] = "booking_perform_destroy"
    /\ bookings' = {b \in bookings : b.id # local[w].id}
    /\ payments' = CascadeDelete(payments, local[w].id)
    /\ Respond(w, Response("booking_destroy", local[w].user, local[w].id, 204, "none", {}))
    /\ UNCHANGED <<nextBookingId, reviews, nextReviewId, chapa_key>>

\* PaymentInitiateView.post up to requests.post: the booking is read, the key
\* is checked and the request goes out
InitiateLookup(w, u, id) ==
    /\ pc[w] = "idle"
    /\ LET found == InitiateBooking(bookings, u, id) IN
       IF found = {}
       THEN Respond(w, PaymentResponse("initiate", u, id, 404, "NotFound", "none", "none",
                                       0, "none"))
       ELSE IF KeyMissing(chapa_key)
       THEN Respond(w, PaymentResponse("initiate", u, id, 500, "NotConfigured", "none",
                                       "none", 0, "none"))
       ELSE \E booking \in found :
            Goto(w, "initialize", [NoLocal EXCEPT !.op = "initiate", !.user = u, !.id = id,
                                                  !.loaded = {booking},
                                                  !.tx_ref = TxRefOf(booking, u)])
    /\ UNCHANGED <<bookings, nextBookingId, payments, reviews, nextReviewId, chapa_key>>

\* requests.post raises, or returns the gateway's answer; on 200 the answer
\* is read and get_or_create looks for the row
InitiateAnswer(w) ==
    /\ pc[w] = "initialize"
    /\ LET u == local[w].user
           id == local[w].id IN
       \/ Respond(w, PaymentResponse("initiate", u, id, 500, "RequestException", "none",
                                     "none", 0, "none"))
       \/ \E http \in GatewayCodes :
             IF ~GatewayOk(http)
             THEN Respond(w, PaymentResponse("initiate", u, id, 400, "GatewayError", "none",
                                             "none", http, "none"))
             ELSE \/ Respond(w, PaymentResponse("initiate", u, id, 500, "KeyError", "none",
                                                "none", http, "missing"))
                  \/ \E tx_id \in TxRefs, checkout_url \in BOOLEAN :
                        IF PaymentsOf(payments, id) = {}
                        THEN Goto(w, "create", [local[w] EXCEPT
                                                  !.transaction_id = tx_id,
                                                  !.checkout_url = checkout_url])
                        ELSE IF checkout_url
                        THEN Respond(w, PaymentResponse("initiate", u, id, 200, "found",
                                                        "none", tx_id, http, tx_id))
                        ELSE Respond(w, PaymentResponse("initiate", u, id, 500, "KeyError",
                                                        "none", "none", http, tx_id))
    /\ \E booking \in local[w].loaded :
          payments' = IF resp'.http = 200 /\ resp'.data \in TxRefs
                      THEN get_existing(payments, PaymentDefaults(booking, resp'.data))
                      ELSE payments
    /\ UNCHANGED <<bookings, nextBookingId, reviews, nextReviewId, chapa_key>>

\* get_or_create inserts the row, then the response is built
InitiateCreate(w) ==
    /\ pc[w] = "create"
    /\ LET u == local[w].user
           id == local[w].id
           tx_id == local[w].transaction_id IN
       \E booking \in local[w].loaded :
          LET out == create_or_get(payments, bookings, PaymentDefaults(booking, tx_id)) IN
          /\ payments' = out.payments
          /\ IF out.error = "IntegrityError"
             THEN Respond(w, PaymentResponse("initiate", u, id, 500, "IntegrityError", "none",
                                             "none", 200, tx_id))
             ELSE IF local[w].checkout_url
             THEN Respond(w, PaymentResponse("initiate", u, id, 200, out.error, "none",
                                             tx_id, 200, tx_id))
             ELSE Respond(w, PaymentResponse("initiate", u, id, 500, "KeyError", "none",
                                             "none", 200, tx_id))
    /\ UNCHANGED <<bookings, nextBookingId, reviews, nextReviewId, chapa_key>>

\* PaymentVerifyView.get up to requests.get: the payment is loaded, the key is
\* checked and the request goes out
VerifyLoad(w, u, id) ==
    /\ pc[w] = "idle"
    /\ LET found == VerifyPayment(payments, u, id) IN
       IF found = {}
       THEN Respond(w, PaymentResponse("verify", u, id, 404, "NotFound", "none", "none",
                                       0, "none"))
       ELSE IF KeyMissing(chapa_key)
       THEN Respond(w, PaymentResponse("verify", u, id, 500, "NotConfigured", "none",
                                       "none", 0, "none"))
       ELSE \E payment \in found :
            Goto(w, "verify", [NoLocal EXCEPT !.op = "verify", !.user = u, !.id = id,
                                              !.loaded = {payment},
                                              !.transaction_id = payment.transaction_id])
    /\ UNCHANGED <<bookings, nextBookingId, payments, reviews, nextReviewId, chapa_key>>

\* requests.get raises, or returns the gateway's answer; on 200 the loaded
\* payment object gets its status, is saved and is answered from
VerifyAnswer(w) ==
    /\ pc[w] = "verify"
    /\ LET u == local[w].user
           id == local[w].id IN
       \/ /\ Respond(w, PaymentResponse("verify", u, id, 500, "RequestException", "none",
                                        "none", 0, "none"))
          /\ payments' = payments
       \/ \E http \in GatewayCodes :
             IF ~GatewayOk(http)
             THEN /\ Respond(w, PaymentResponse("verify", u, id, 400, "GatewayError", "none",
                                                "none", http, "none"))
                  /\ payments' = payments
             ELSE \/ /\ Respond(w, PaymentResponse("verify", u, id, 500, "KeyError", "none",
                                                   "none", http, "missing"))
                     /\ payments' = payments
                  \/ \E status_val \in GatewayStatuses, payment \in local[w].loaded :
                        LET obj == [payment EXCEPT
                                      !.status = VerifiedStatus(status_val, payment.status)]
                            out == IF Saves(status_val)
                                   THEN save_payment(payments, bookings, obj)
                                   ELSE [payments |-> payments, error |-> "none"] IN
                        /\ payments' = out.payments
                        /\ IF out.error = "IntegrityError"
                           THEN Respond(w, PaymentResponse("verify", u, id, 500,
                                                           "IntegrityError", "none", "none",
                                                           http, status_val))
                           ELSE Respond(w, PaymentResponse("verify", u, id, 200, "none",
                                                           obj.status, "none", http,
                                                           status_val))
    /\ UNCHANGED <<bookings, nextBookingId, reviews, nextReviewId, chapa_key>>

Next ==
    \/ \E key \in KeyValues : SetEnv(key)
    \/ \E u \in Users, price \in Prices, valid \in BOOLEAN : BookingCreate(u, price, valid)
    \/ \E u \in Users : BookingList(u)
    \/ \E u \in Users, id \in BookingIds : BookingRetrieve(u, id)
    \/ \E w \in Procs, u \in Users, id \in BookingIds, price \in Prices, valid \in BOOLEAN :
          BookingUpdate(w, u, id, price, valid)
    \/ \E w \in Procs : BookingPerformUpdate(w)
    \/ \E w \in Procs, u \in Users, id \in BookingIds : BookingDestroy(w, u, id)
    \/ \E w \in Procs : BookingPerformDestroy(w)
    \/ \E w \in Procs, u \in Users, id \in BookingIds : InitiateLookup(w, u, id)
    \/ \E w \in Procs : InitiateAnswer(w)
    \/ \E w \in Procs : InitiateCreate(w)
    \/ \E w \in Procs, u \in Users, id \in BookingIds : VerifyLoad(w, u, id)
    \/ \E w \in Procs : VerifyAnswer(w)

Spec == Init /\ [][Next]_vars

\* ---- review requests --------------------------------------------------------
\* ListingViewSet.add_review up to the duplicate check
AddReviewCheck(w, u, l, valid) ==
    /\ pc[w] = "idle"
    /\ IF ~valid
       THEN Respond(w, Response("add_review", u, l, 400, "invalid", {}))
       ELSE IF ReviewExists(reviews, l, u)
       THEN Respond(w, Response("add_review", u, l, 400, "duplicate", {}))
       ELSE Goto(w, "add_review_save", [NoLocal EXCEPT !.op = "add_review", !.user = u,
                                                       !.listing = l])
    /\ UNCHANGED <<bookings, nextBookingId, payments, reviews, nextReviewId, chapa_key>>

\* the insert of a review by the request in flight w, and its response
InsertReview(w) ==
    /\ nextReviewId <= MaxReviews
    /\ LET row == [id |-> nextReviewId, listing |-> local[w].listing,
                   reviewer |-> local[w].user]
           out == save_review(reviews, row) IN
       /\ reviews' = out.reviews
       /\ IF out.error = "IntegrityError"
          THEN /\ Respond(w, Response(local[w].op, row.reviewer, row.listing, 500,
                                      "IntegrityError", {}))
               /\ nextReviewId' = nextReviewId
          ELSE /\ Respond(w, Response(local[w].op, row.reviewer, row.listing, 201,
                                      "none", {row}))
               /\ nextReviewId' = nextReviewId + 1
    /\ UNCHANGED <<bookings, nextBookingId, payments, chapa_key>>

\* ListingViewSet.add_review: serializer.save(listing=listing, reviewer=request.user)
AddReviewSave(w) ==
    /\ pc[w] = "add_review_save"
    /\ InsertReview(w)

\* POST /reviews/ : serializer.is_valid() of ModelViewSet.create
ReviewCreateValidate(w, u, l, valid) ==
    /\ pc[w] = "idle"
    /\ IF valid
       THEN Goto(w, "perform_create", [NoLocal EXCEPT !.op = "review_create", !.user = u,
                                                      !.listing = l])
       ELSE Respond(w, Response("review_create", u, l, 400, "invalid", {}))
    /\ UNCHANGED <<bookings, nextBookingId, payments, reviews, nextReviewId, chapa_key>>

\* ReviewViewSet.perform_create: serializer.save(reviewer=self.request.user)
ReviewPerformCreate(w) ==
    /\ pc[w] = "perform_create"
    /\ InsertReview(w)

\* PUT /reviews/{id}/ : get_object() on the caller's reviews, serializer.is_valid()
ReviewUpdateValidate(w, u, rid, l, valid) ==
    /\ pc[w] = "idle"
    /\ LET found == {r \in review_queryset(reviews, u) : r.id = rid} IN
       IF found = {}
       THEN Respond(w, Response("review_update", u, rid, 404, "NotFound", {}))
       ELSE IF ~valid
       THEN Respond(w, Response("review_update", u, rid, 400, "invalid", {}))
       ELSE Goto(w, "perform_update", [NoLocal EXCEPT !.op = "review_update", !.user = u,
                                                      !.id = rid, !.listing = l])
    /\ UNCHANGED <<bookings, nextBookingId, payments, reviews, nextReviewId, chapa_key>>

\* PUT /reviews/{id}/ : serializer.save() of the loaded review
ReviewPerformUpdate(w) ==
    /\ pc[w] = "perform_update"
    /\ LET row == [id |-> local[w].id, listing |-> local[w].listing,
                   reviewer |-> local[w].user]
           out == save_review(reviews, row) IN
       /\ reviews' = out.reviews
       /\ IF out.error = "IntegrityError"
          THEN Respond(w, Response("review_update", row.reviewer, row.id, 500,
                                   "IntegrityError", {}))
          ELSE Respond(w, Response("review_update", row.reviewer, row.id, 200, "none", {row}))
    /\ UNCHANGED <<bookings, nextBookingId, payments, nextReviewId, chapa_key>>

\* DELETE /reviews/{id}/ : get_object() on the caller's reviews
ReviewDestroy(w, u, rid) ==
    /\ pc[w] = "idle"
    /\ LET found == {r \in review_queryset(reviews, u) : r.id = rid} IN
       IF found = {}
       THEN Respond(w, Response("review_destroy", u, rid, 404, "NotFound", {}))
       ELSE Goto(w, "perform_destroy", [NoLocal EXCEPT !.op = "review_destroy", !.user = u,
                                                       !.id = rid])
    /\ UNCHANGED <<bookings, nextBookingId, payments, reviews, nextReviewId, chapa_key>>

\* DELETE /reviews/{id}/ : perform_destroy, instance.delete() removes the row
\* with the pk of the loaded review
ReviewPerformDestroy(w) ==
    /\ pc[w] = "perform_destroy"
    /\ reviews' = {r \in reviews : r.id # local[w].id}
    /\ Respond(w, Response("review_destroy", local[w].user, local[w].id, 204, "none", {}))
    /\ UNCHANGED <<bookings, nextBookingId, payments, nextReviewId, chapa_key>>

NextReview ==
    \/ \E w \in Procs, u \in Users, l \in Listings, valid \in BOOLEAN :
          AddReviewCheck(w, u, l, valid)
    \/ \E w \in Procs : AddReviewSave(w)
    \/ \E w \in Procs, u \in Users, l \in Listings, valid \in BOOLEAN :
          ReviewCreateValidate(w, u, l, valid)
    \/ \E w \in Procs : ReviewPerformCreate(w)
    \/ \E w \in Procs, u \in Users, rid \in ReviewIds, l \in Listings, valid \in BOOLEAN :
          ReviewUpdateValidate(w, u, rid, l, valid)
    \/ \E w \in Procs : ReviewPerformUpdate(w)
    \/ \E w \in Procs, u \in Users, rid \in ReviewIds : ReviewDestroy(w, u, rid)
    \/ \E w \in Procs : ReviewPerformDestroy(w)

SpecReview == Init /\ [][NextReview]_vars

\* ---- claims ---------------------------------------------------------------
PaymentOps == {"initiate", "verify"}
BookingOps == {"booking_create", "booking_list", "booking_retrieve", "booking_update",
               "booking_destroy"}
Terminal == {"completed", "failed"}

\* C1: a caller who does not own booking B gets 404 from Initiate and from
\* Verify, no gateway request is issued for the call and the payments are
\* unchanged.
C1_NonOwnerNotFound ==
    [][\A b \in bookings :
         /\ (resp'.op \in PaymentOps /\ resp'.id = b.id /\ resp'.user # b.user)
               => (resp'.code = 404 /\ payments' = payments)
         /\ \A w \in Procs :
               (pc[w] = "idle" /\ pc'[w] # "idle" /\ local'[w].id = b.id)
                  => local'[w].user = b.user]_vars

\* C2: once a Payment's status is completed or failed, no step changes it to
\* a different value.
C2_TerminalStatus ==
    [][\A p \in payments : \A q \in payments' :
         (p.status \in Terminal /\ q.booking = p.booking) => q.status = p.status]_vars

\* C3: an Initiate never changes a Payment row that exists; after a
\* successful Initiate there is exactly one row for the booking, and a row the
\* call creates holds the total_price the call read, the gateway's tx_ref and
\* status pending.
C3_InitiateIdempotent ==
    [][resp'.op = "initiate" =>
         /\ PaymentsOf(payments, resp'.id) # {} => payments' = payments
         /\ resp'.code = 200 => Cardinality(PaymentsOf(payments', resp'.id)) = 1
         /\ payments' # payments =>
               \E w \in Procs : \E b \in local[w].loaded :
                  /\ pc[w] = "create" /\ local[w].id = resp'.id
                  /\ payments' = payments \cup
                        {[booking |-> resp'.id, amount |-> b.total_price,
                          transaction_id |-> resp'.data, status |-> "pending"]}]_vars

\* C3 witness: a successful Initiate has run on a booking whose Payment holds
\* another transaction_id and another amount than this call would have written.
C3_Witness ==
    /\ resp.op = "initiate" /\ resp.code = 200
    /\ \E p \in payments, b \in bookings :
          /\ p.booking = resp.id /\ b.id = resp.id
          /\ p.transaction_id # resp.transaction_id
          /\ p.amount # b.total_price

\* C4: when the gateway answers 200 to a Verify of a Payment that is still
\* stored, "success" stores completed, "failed" stores failed, any other value
\* leaves the stored status as it was, and the response carries the status
\* stored after the call.
C4_VerifyMapsStatus ==
    [][(resp'.op = "verify" /\ resp'.http = 200 /\ resp'.data \in GatewayStatuses
        /\ PaymentsOf(payments, resp'.id) # {}) =>
         \E p \in payments, q \in payments' :
            /\ p.booking = resp'.id /\ q.booking = resp'.id
            /\ resp'.data = "success" => q.status = "completed"
            /\ resp'.data = "failed" => q.status = "failed"
            /\ resp'.data \notin {"success", "failed"} => q.status = p.status
            /\ resp'.code = 200 /\ resp'.status = q.status]_vars

\* C5: with Initiate calls interleaved, a booking never has more than one
\* Payment row, and no call ends in an unhandled IntegrityError while its
\* booking exists: the call that loses the insert answers from the row of the
\* other.
C5_ConcurrentInitiate ==
    [][/\ \A id \in BookingIds : Cardinality(PaymentsOf(payments', id)) <= 1
       /\ (resp'.op = "initiate" /\ resp'.error = "IntegrityError")
             => \A b \in bookings : b.id # resp'.id]_vars

\* C5 witness: an Initiate whose insert was refused because a concurrent
\* Initiate had inserted the row has answered 200 with its own tx_ref, and
\* the booking has the one row of the other call.
C5_Witness ==
    /\ resp.op = "initiate" /\ resp.code = 200 /\ resp.error = "refetched"
    /\ Cardinality(PaymentsOf(payments, resp.id)) = 1
    /\ \E p \in payments : p.booking = resp.id /\ p.transaction_id # resp.transaction_id

\* C6: there is at most one Review per (listing, reviewer) pair, and every
\* review creation request, interleaved or not, ends with 201 or, when the
\* pair has a review, with a 400 client error.
C6_OneReviewPerPair ==
    /\ \A l \in Listings, u \in Users : Cardinality(ReviewsOf(reviews, l, u)) <= 1
    /\ resp.op \in {"add_review", "review_create"} => resp.code \in {201, 400}

\* C7: when the gateway answers anything but 200, Initiate and Verify answer
\* 400 and the payments are unchanged.
C7_GatewayErrorNoChange ==
    [][(resp'.op \in PaymentOps /\ resp'.http \notin {0, 200})
          => (resp'.code = 400 /\ payments' = payments)]_vars

\* C7 witness: an Initiate whose gateway call was answered 201 has returned 400
\* and the booking has no Payment.
C7_Witness ==
    /\ resp.op = "initiate" /\ resp.http = 201 /\ resp.code = 400
    /\ PaymentsOf(payments, resp.id) = {}
    /\ \E b \in bookings : b.id = resp.id

\* C8: with the credential absent (unset or empty), no call gets as far as a
\* gateway request, and Initiate on an owned booking and Verify on an existing
\* Payment answer 500 and leave the payments unchanged.
C8_MissingKeyNoChange ==
    [][(chapa_key = "None" \/ chapa_key = "") =>
         LET owned == resp'.op = "initiate"
                        /\ InitiateBooking(bookings, resp'.user, resp'.id) # {}
             stored == resp'.op = "verify" /\ PaymentsOf(payments, resp'.id) # {}
             answered == resp'.code = 500 /\ resp'.error = "NotConfigured"
         IN /\ \A w \in Procs : pc[w] = "idle" => pc'[w] \notin {"initialize", "verify"}
            /\ (pc' = pc /\ (owned \/ stored)) => answered /\ payments' = payments]_vars

\* C8 witness: with the key set to the empty string a Verify has answered 500
\* for a booking whose Payment is stored completed.
C8_Witness ==
    /\ resp.op = "verify" /\ resp.code = 500 /\ resp.error = "NotConfigured"
    /\ chapa_key = ""
    /\ \E p \in payments : p.booking = resp.id /\ p.status = "completed"

\* C9: a booking is created with its caller as owner, and a booking request
\* of caller U returns only bookings of U, answers 404 for another user's
\* booking and leaves every booking of another user as it was.
C9_OwnerScoped ==
    [][resp'.op \in BookingOps =>
         /\ \A b \in resp'.result : b.user = resp'.user
         /\ \A b \in bookings' \ bookings : b.user = resp'.user
         /\ \A b \in bookings :
               b.user # resp'.user =>
                  /\ b \in bookings'
                  /\ PaymentsOf(payments', b.id) = PaymentsOf(payments, b.id)
                  /\ resp'.id = b.id => resp'.code = 404]_vars

\* C9 witness: a delete request for another user's booking has answered 404
\* and the booking is still there.
C9_Witness ==
    /\ resp.op = "booking_destroy" /\ resp.code = 404
    /\ \E b \in bookings : b.id = resp.id /\ b.user # resp.user

\* C10: after a successful Initiate the transaction_id of the response is the
\* transaction_id stored on the booking's Payment.
C10_ReturnedIsStored ==
    (resp.op = "initiate" /\ resp.code = 200) =>
        \A p \in PaymentsOf(payments, resp.id) : p.transaction_id = resp.transaction_id

TypeOK ==
    /\ bookings \subseteq [id : BookingIds, user : Users, total_price : Prices]
    /\ nextBookingId \in 1..(MaxBookings + 1)
    /\ payments \subseteq [booking : BookingIds, amount : Prices, transaction_id : TxRefs,
                           status : {"pending", "completed", "failed"}]
    /\ chapa_key \in KeyValues
    /\ \A w \in Procs : pc[w] \in {"idle", "initialize", "create", "verify",
                                   "booking_perform_update", "booking_perform_destroy",
                                   "add_review_save", "perform_create", "perform_update",
                                   "perform_destroy"}
====
